---- MODULE Spec2Model ----
(***************************************************************************)
(* Delta classification and event construction of fbchat                   *)
(* (fbchat/_events/_delta_class.py).                                       *)
(*                                                                         *)
(* Python values are records tagged by "type"; a dict is a function whose  *)
(* domain is its set of keys; a list is a sequence.  Every computation     *)
(* that can raise yields Ok(v) or Raise(exc), and the parsers thread these *)
(* through in Python's evaluation order.                                   *)
(***************************************************************************)
EXTENDS Integers, Sequences, FiniteSets, TLC

VARIABLES call, result, occ, built, pc, frame, out

vars == <<call, result, occ, built, pc, frame, out>>

(***************************************************************************)
(* Bounds                                                                  *)
(***************************************************************************)
\* longest list (addedParticipants, messageIds, threadKeys, folders) tried
MaxLen == 2
\* largest millisecond value whose decimal text int() is asked to read
MaxMillis == 2000
\* number of concurrent callers of parse_delta
NumCallers == 2

(***************************************************************************)
(* Python values                                                           *)
(***************************************************************************)
None == [type |-> "None"]

PyStr(s) == [type |-> "str", s |-> s]

PyInt(n) == [type |-> "int", n |-> n]

Ok(v) == [ok |-> TRUE, v |-> v]

Raise(e) == [ok |-> FALSE, exc |-> e]

\* d[k] on a dict
GetItem(d, k) == IF k \in DOMAIN d THEN Ok(d[k]) ELSE Raise("KeyError")

\* truth value of a leaf value, as used by `x or None`
Truthy(v) ==
    CASE v.type = "None" -> FALSE
      [] v.type = "str" -> v.s # ""
      [] v.type = "int" -> v.n # 0
      [] OTHER -> TRUE

\* x or None
OrNone(v) == IF Truthy(v) THEN v ELSE None

\* decimal text of the integers int() is asked to read
DecimalText == [n \in 0..MaxMillis |-> ToString(n)]

\* int(x): an int is itself, a decimal string is the number it spells,
\* any other string is a ValueError, None a TypeError
int(v) ==
    CASE v.type = "int" -> Ok(v.n)
      [] v.type = "str" ->
            IF \E n \in 0..MaxMillis : DecimalText[n] = v.s
            THEN Ok(CHOOSE n \in 0..MaxMillis : DecimalText[n] = v.s)
            ELSE Raise("ValueError")
      [] OTHER -> Raise("TypeError")

\* [f(x) for x in xs], where f yields Ok/Raise: the first failing element
\* decides the exception
RaisesIn(rs) == \E i \in 1..Len(rs) : ~rs[i].ok

FirstRaise(rs) == rs[CHOOSE i \in 1..Len(rs) : ~rs[i].ok /\ \A j \in 1..(i-1) : rs[j].ok]

Collect(rs) == IF RaisesIn(rs) THEN FirstRaise(rs) ELSE Ok([i \in 1..Len(rs) |-> rs[i].v])

(***************************************************************************)
(* Collaborators: sessions, reference handles, timestamps                  *)
(***************************************************************************)
\* session.user: the session's own user as a reference handle
User(session, id) == [type |-> "User", session |-> session, id |-> id]

Group(session, id) == [type |-> "Group", session |-> session, id |-> id]

Message(thread, id) == [type |-> "Message", thread |-> thread, id |-> id]

SessionUser(session) == User(session, session.user_id)

\* exact conversion of epoch milliseconds: whole seconds and microseconds
millis_to_datetime(ms) ==
    [type |-> "datetime", second |-> ms \div 1000, microsecond |-> (ms % 1000) * 1000]

ThreadLocation_parse(raw) == [type |-> "ThreadLocation", raw |-> raw]

MessageData_from_pull(thread, data, author, created_at) ==
    [type |-> "MessageData", thread |-> thread, author |-> author,
     created_at |-> created_at, raw |-> data]

UnknownEvent(source, data) == [type |-> "UnknownEvent", source |-> source, data |-> data]

\* _delta_type.parse_admin_message is another module's dispatcher; its
\* result is kept as the delegation itself
parse_admin_message(session, data) ==
    Ok([type |-> "AdminMessageResult", session |-> session, data |-> data])

(***************************************************************************)
(* Metadata extractors                                                     *)
(***************************************************************************)
\* group id present -> group thread; else one-to-one with the other user
Event_get_thread(session, data) ==
    LET key == GetItem(data, "threadKey") IN
    IF ~key.ok THEN key ELSE
    IF "threadFbId" \in DOMAIN key.v
    THEN Ok(Group(session, key.v["threadFbId"]))
    ELSE LET other == GetItem(key.v, "otherUserFbId") IN
         IF ~other.ok THEN other ELSE Ok(User(session, other.v))

ThreadEvent_parse_metadata(session, data) ==
    LET metadata == GetItem(data, "messageMetadata") IN
    IF ~metadata.ok THEN metadata ELSE
    LET actor == GetItem(metadata.v, "actorFbId") IN
    IF ~actor.ok THEN actor ELSE
    LET thread == Event_get_thread(session, metadata.v) IN
    IF ~thread.ok THEN thread ELSE
    LET ts == GetItem(metadata.v, "timestamp") IN
    IF ~ts.ok THEN ts ELSE
    LET ms == int(ts.v) IN
    IF ~ms.ok THEN ms ELSE
    Ok([author |-> User(session, actor.v), thread |-> thread.v,
        at |-> millis_to_datetime(ms.v)])

ThreadEvent_parse_fetch(session, data) ==
    LET sender == GetItem(data, "message_sender") IN
    IF ~sender.ok THEN sender ELSE
    LET id == GetItem(sender.v, "id") IN
    IF ~id.ok THEN id ELSE
    LET ts == GetItem(data, "timestamp_precise") IN
    IF ~ts.ok THEN ts ELSE
    LET ms == int(ts.v) IN
    IF ~ms.ok THEN ms ELSE
    Ok([author |-> User(session, id.v), at |-> millis_to_datetime(ms.v)])

(***************************************************************************)
(* Per-kind parsers                                                        *)
(***************************************************************************)
ParticipantsAdded(author, thread, added, at) ==
    [type |-> "ParticipantsAdded", author |-> author, thread |-> thread,
     added |-> added, at |-> at]

ParticipantsAdded_parse(session, data) ==
    LET meta == ThreadEvent_parse_metadata(session, data) IN
    IF ~meta.ok THEN meta ELSE
    LET raw == GetItem(data, "addedParticipants") IN
    IF ~raw.ok THEN raw ELSE
    LET each == [i \in 1..Len(raw.v) |->
                    LET id == GetItem(raw.v[i], "userFbId") IN
                    IF ~id.ok THEN id ELSE Ok(User(session, id.v))]
        added == Collect(each) IN
    IF ~added.ok THEN added ELSE
    Ok(ParticipantsAdded(meta.v.author, meta.v.thread, added.v, meta.v.at))

\* the echo signed by the thread instead of the session's own user
ParticipantsAdded_from_send_thread_author(thread, added_ids) ==
    Ok(ParticipantsAdded(thread, thread,
                         [i \in 1..Len(added_ids) |-> User(thread.session, added_ids[i])],
                         None))

ParticipantsAdded_from_send(thread, added_ids) ==
    Ok(ParticipantsAdded(SessionUser(thread.session), thread,
                         [i \in 1..Len(added_ids) |-> User(thread.session, added_ids[i])],
                         None))

ParticipantsAdded_from_fetch(thread, data) ==
    LET meta == ThreadEvent_parse_fetch(thread.session, data) IN
    IF ~meta.ok THEN meta ELSE
    LET raw == GetItem(data, "participants_added") IN
    IF ~raw.ok THEN raw ELSE
    LET each == [i \in 1..Len(raw.v) |->
                    LET id == GetItem(raw.v[i], "id") IN
                    IF ~id.ok THEN id ELSE Ok(User(thread.session, id.v))]
        added == Collect(each) IN
    IF ~added.ok THEN added ELSE
    Ok(ParticipantsAdded(meta.v.author, thread, added.v, meta.v.at))

ParticipantRemoved(author, thread, removed, at) ==
    [type |-> "ParticipantRemoved", author |-> author, thread |-> thread,
     removed |-> removed, at |-> at]

ParticipantRemoved_parse(session, data) ==
    LET meta == ThreadEvent_parse_metadata(session, data) IN
    IF ~meta.ok THEN meta ELSE
    LET id == GetItem(data, "leftParticipantFbId") IN
    IF ~id.ok THEN id ELSE
    Ok(ParticipantRemoved(meta.v.author, meta.v.thread, User(session, id.v), meta.v.at))

ParticipantRemoved_from_send(thread, removed_id) ==
    Ok(ParticipantRemoved(SessionUser(thread.session), thread,
                          User(thread.session, removed_id), None))

ParticipantRemoved_from_fetch(thread, data) ==
    LET meta == ThreadEvent_parse_fetch(thread.session, data) IN
    IF ~meta.ok THEN meta ELSE
    LET raw == GetItem(data, "participants_removed") IN
    IF ~raw.ok THEN raw ELSE
    IF Len(raw.v) = 0 THEN Raise("IndexError") ELSE
    LET id == GetItem(raw.v[1], "id") IN
    IF ~id.ok THEN id ELSE
    Ok(ParticipantRemoved(meta.v.author, thread, User(thread.session, id.v), meta.v.at))

TitleSet(author, thread, title, at) ==
    [type |-> "TitleSet", author |-> author, thread |-> thread,
     title |-> title, at |-> at]

TitleSet_parse(session, data) ==
    LET meta == ThreadEvent_parse_metadata(session, data) IN
    IF ~meta.ok THEN meta ELSE
    LET name == GetItem(data, "name") IN
    IF ~name.ok THEN name ELSE
    Ok(TitleSet(meta.v.author, meta.v.thread, OrNone(name.v), meta.v.at))

\* the fetched title taken as it is, "" included
TitleSet_from_fetch_raw_title(thread, data) ==
    LET meta == ThreadEvent_parse_fetch(thread.session, data) IN
    IF ~meta.ok THEN meta ELSE
    LET name == GetItem(data, "thread_name") IN
    IF ~name.ok THEN name ELSE
    Ok(TitleSet(meta.v.author, thread, name.v, meta.v.at))

TitleSet_from_fetch(thread, data) ==
    LET meta == ThreadEvent_parse_fetch(thread.session, data) IN
    IF ~meta.ok THEN meta ELSE
    LET name == GetItem(data, "thread_name") IN
    IF ~name.ok THEN name ELSE
    Ok(TitleSet(meta.v.author, thread, OrNone(name.v), meta.v.at))

UnfetchedThreadEvent_parse(session, data) ==
    LET thread == Event_get_thread(session, data) IN
    IF ~thread.ok THEN thread ELSE
    LET message == IF "messageId" \in DOMAIN data
                   THEN Message(thread.v, data["messageId"])
                   ELSE None IN
    Ok([type |-> "UnfetchedThreadEvent", thread |-> thread.v, message |-> message])

\* the fallback forgotten: no explicit actor, no author
MessagesDelivered_author_no_fallback(session, data, thread) ==
    IF "actorFbId" \in DOMAIN data
    THEN User(session, data["actorFbId"])
    ELSE None

\* the branches swapped: the thread as author when an actor is given
MessagesDelivered_author_swapped(session, data, thread) ==
    IF "actorFbId" \in DOMAIN data
    THEN thread
    ELSE User(session, session.user_id)

\* the author of a delivery mark: the explicit actor, else the thread itself
MessagesDelivered_author(session, data, thread) ==
    IF "actorFbId" \in DOMAIN data
    THEN User(session, data["actorFbId"])
    ELSE thread

MessagesDelivered_parse(session, data) ==
    LET thread == Event_get_thread(session, data) IN
    IF ~thread.ok THEN thread ELSE
    LET author == MessagesDelivered_author(session, data, thread.v) IN
    LET ids == GetItem(data, "messageIds") IN
    IF ~ids.ok THEN ids ELSE
    LET messages == [i \in 1..Len(ids.v) |-> Message(thread.v, ids.v[i])] IN
    LET ts == GetItem(data, "deliveredWatermarkTimestampMs") IN
    IF ~ts.ok THEN ts ELSE
    LET ms == int(ts.v) IN
    IF ~ms.ok THEN ms ELSE
    Ok([type |-> "MessagesDelivered", author |-> author, thread |-> thread.v,
        messages |-> messages, at |-> millis_to_datetime(ms.v)])

ThreadsRead(author, threads, at) ==
    [type |-> "ThreadsRead", author |-> author, threads |-> threads, at |-> at]

ThreadsRead_parse_read_receipt(session, data) ==
    LET actor == GetItem(data, "actorFbId") IN
    IF ~actor.ok THEN actor ELSE
    LET thread == Event_get_thread(session, data) IN
    IF ~thread.ok THEN thread ELSE
    LET ts == GetItem(data, "actionTimestampMs") IN
    IF ~ts.ok THEN ts ELSE
    LET ms == int(ts.v) IN
    IF ~ms.ok THEN ms ELSE
    Ok(ThreadsRead(User(session, actor.v), <<thread.v>>, millis_to_datetime(ms.v)))

\* the bulk shape given the actor of the single shape's thread: the first
\* thread, not the session's user, becomes the author
ThreadsRead_parse_thread_author(session, data) ==
    LET keys == GetItem(data, "threadKeys") IN
    IF ~keys.ok THEN keys ELSE
    LET threads == Collect([i \in 1..Len(keys.v) |->
                       Event_get_thread(session, [threadKey |-> keys.v[i]])]) IN
    IF ~threads.ok THEN threads ELSE
    LET ts == GetItem(data, "actionTimestamp") IN
    IF ~ts.ok THEN ts ELSE
    LET ms == int(ts.v) IN
    IF ~ms.ok THEN ms ELSE
    Ok(ThreadsRead(IF Len(threads.v) > 0 THEN threads.v[1] ELSE SessionUser(session),
                   threads.v, millis_to_datetime(ms.v)))

ThreadsRead_parse(session, data) ==
    LET keys == GetItem(data, "threadKeys") IN
    IF ~keys.ok THEN keys ELSE
    LET threads == Collect([i \in 1..Len(keys.v) |->
                       Event_get_thread(session, [threadKey |-> keys.v[i]])]) IN
    IF ~threads.ok THEN threads ELSE
    LET ts == GetItem(data, "actionTimestamp") IN
    IF ~ts.ok THEN ts ELSE
    LET ms == int(ts.v) IN
    IF ~ms.ok THEN ms ELSE
    Ok(ThreadsRead(SessionUser(session), threads.v, millis_to_datetime(ms.v)))

MessageEvent_parse(session, data) ==
    LET meta == ThreadEvent_parse_metadata(session, data) IN
    IF ~meta.ok THEN meta ELSE
    LET message == MessageData_from_pull(meta.v.thread, data, meta.v.author.id, meta.v.at) IN
    Ok([type |-> "MessageEvent", author |-> meta.v.author, thread |-> meta.v.thread,
        message |-> message, at |-> meta.v.at])

\* the folder read with a default instead of a subscript
ThreadFolder_parse_lenient(session, data) ==
    LET thread == Event_get_thread(session, data) IN
    IF ~thread.ok THEN thread ELSE
    LET folder == IF "folder" \in DOMAIN data THEN data["folder"] ELSE None IN
    Ok([type |-> "ThreadFolder", thread |-> thread.v,
        folder |-> ThreadLocation_parse(folder)])

ThreadFolder_parse(session, data) ==
    LET thread == Event_get_thread(session, data) IN
    IF ~thread.ok THEN thread ELSE
    LET folder == GetItem(data, "folder") IN
    IF ~folder.ok THEN folder ELSE
    Ok([type |-> "ThreadFolder", thread |-> thread.v,
        folder |-> ThreadLocation_parse(folder.v)])

(***************************************************************************)
(* Delta dispatcher                                                        *)
(***************************************************************************)
\* the unfinished branch returning what it parsed
MarkFolderSeen_branch_returns_parsed(session, data) ==
    LET raw == GetItem(data, "folders") IN
    IF ~raw.ok THEN raw ELSE
    LET folders == [i \in 1..Len(raw.v) |-> ThreadLocation_parse(raw.v[i])] IN
    LET ts == GetItem(data, "timestamp") IN
    IF ~ts.ok THEN ts ELSE
    LET ms == int(ts.v) IN
    IF ~ms.ok THEN ms ELSE
    Ok([type |-> "FoldersSeen", folders |-> folders, at |-> millis_to_datetime(ms.v)])

\* the MarkFolderSeen branch: parses folders and timestamp, returns None
MarkFolderSeen_branch(session, data) ==
    LET raw == GetItem(data, "folders") IN
    IF ~raw.ok THEN raw ELSE
    LET folders == [i \in 1..Len(raw.v) |-> ThreadLocation_parse(raw.v[i])] IN
    LET ts == GetItem(data, "timestamp") IN
    IF ~ts.ok THEN ts ELSE
    LET ms == int(ts.v) IN
    IF ~ms.ok THEN ms ELSE
    Ok(None)

\* the NoOp branch: skip "no operation" events
NoOp_branch == Ok(None)

\* the branch missing: the tag falls through to the fallback's None-like skip
ClientPayload_branch_skipped == Ok(None)

\* the ClientPayload branch: implemented in parse_events, not here
ClientPayload_branch == Raise("ValueError")

\* the fallback with the sibling dispatcher's source tag
parse_delta_fallback_wrong_source(data) == Ok(UnknownEvent("Delta type", data))

\* no branch matched
parse_delta_fallback(data) == Ok(UnknownEvent("Delta class", data))

\* the if/elif chain of parse_delta, once class_ has been read
parse_delta_dispatch(class_, session, data) ==
    CASE class_ = PyStr("AdminTextMessage") -> parse_admin_message(session, data)
      [] class_ = PyStr("ParticipantsAddedToGroupThread") -> ParticipantsAdded_parse(session, data)
      [] class_ = PyStr("ParticipantLeftGroupThread") -> ParticipantRemoved_parse(session, data)
      [] class_ = PyStr("MarkFolderSeen") -> MarkFolderSeen_branch(session, data)
      [] class_ = PyStr("ThreadName") -> TitleSet_parse(session, data)
      [] class_ = PyStr("ForcedFetch") -> UnfetchedThreadEvent_parse(session, data)
      [] class_ = PyStr("DeliveryReceipt") -> MessagesDelivered_parse(session, data)
      [] class_ = PyStr("ReadReceipt") -> ThreadsRead_parse_read_receipt(session, data)
      [] class_ = PyStr("MarkRead") -> ThreadsRead_parse(session, data)
      [] class_ = PyStr("NoOp") -> NoOp_branch
      [] class_ = PyStr("NewMessage") -> MessageEvent_parse(session, data)
      [] class_ = PyStr("ThreadFolder") -> ThreadFolder_parse(session, data)
      [] class_ = PyStr("ClientPayload") -> ClientPayload_branch
      [] OTHER -> parse_delta_fallback(data)

parse_delta(session, data) ==
    LET class_ == GetItem(data, "class") IN
    IF ~class_.ok THEN class_ ELSE parse_delta_dispatch(class_.v, session, data)

(***************************************************************************)
(* Inputs: sessions, payloads of every recognised shape with any subset of *)
(* their fields missing, and the arguments of the send and fetch paths     *)
(***************************************************************************)
Restrict(d, S) == [k \in S |-> d[k]]

\* d with any subset of its keys missing
SubDicts(d) == {Restrict(d, S) : S \in SUBSET DOMAIN d}

\* d with any subset of its keys other than "class" missing
SubPayloads(d) == {Restrict(d, S \cup {"class"}) : S \in SUBSET DOMAIN d}

SeqsUpTo(S, n) == UNION {[1..k -> S] : k \in 0..n}

Sessions == {[type |-> "Session", user_id |-> PyStr("100")],
             [type |-> "Session", user_id |-> PyStr("200")]}

UserIds == {PyStr("100"), PyStr("300")}

GroupIds == {PyStr("900")}

MessageIds == {PyStr("mid.1"), PyStr("mid.2")}

Millis == {1000, 1999}

TimestampValues == {PyStr(ToString(ms)) : ms \in Millis} \cup {PyInt(1000), PyStr("soon")}

Titles == {PyStr(""), PyStr("X"), PyStr("Y"), None}

FolderValues == {PyStr("FOLDER_INBOX"), PyStr("FOLDER_PENDING")}

ThreadKeys ==
    UNION {SubDicts([threadFbId |-> g, otherUserFbId |-> u]) : g \in GroupIds, u \in UserIds}

Metadatas ==
    UNION {SubDicts([actorFbId |-> a, threadKey |-> k, timestamp |-> ts]) :
             a \in UserIds, k \in ThreadKeys, ts \in TimestampValues}

AddedEntries == UNION {SubDicts([userFbId |-> u]) : u \in UserIds}

FetchEntries == UNION {SubDicts([id |-> u]) : u \in UserIds}

Tagged(tag, S) == UNION {SubPayloads([class |-> PyStr(tag)] @@ d) : d \in S}

ParticipantsAddedPayloads ==
    Tagged("ParticipantsAddedToGroupThread",
           {[messageMetadata |-> m, addedParticipants |-> ps] :
              m \in Metadatas, ps \in SeqsUpTo(AddedEntries, MaxLen)})

ParticipantLeftPayloads ==
    Tagged("ParticipantLeftGroupThread",
           {[messageMetadata |-> m, leftParticipantFbId |-> u] :
              m \in Metadatas, u \in UserIds})

ThreadNamePayloads ==
    Tagged("ThreadName",
           {[messageMetadata |-> m, name |-> t] : m \in Metadatas, t \in Titles})

ForcedFetchPayloads ==
    Tagged("ForcedFetch",
           {[threadKey |-> k, messageId |-> i] : k \in ThreadKeys, i \in MessageIds})

DeliveryReceiptPayloads ==
    Tagged("DeliveryReceipt",
           {[threadKey |-> k, actorFbId |-> a, messageIds |-> ids,
             deliveredWatermarkTimestampMs |-> ts] :
              k \in ThreadKeys, a \in UserIds,
              ids \in SeqsUpTo(MessageIds, MaxLen), ts \in TimestampValues})

ReadReceiptPayloads ==
    Tagged("ReadReceipt",
           {[actorFbId |-> a, threadKey |-> k, actionTimestampMs |-> ts] :
              a \in UserIds, k \in ThreadKeys, ts \in TimestampValues})

MarkReadPayloads ==
    Tagged("MarkRead",
           {[threadKeys |-> ks, actionTimestamp |-> ts] :
              ks \in SeqsUpTo(ThreadKeys, MaxLen), ts \in TimestampValues})

NewMessagePayloads ==
    Tagged("NewMessage",
           {[messageMetadata |-> m, body |-> PyStr("hi")] : m \in Metadatas})

ThreadFolderPayloads ==
    Tagged("ThreadFolder",
           {[threadKey |-> k, folder |-> f] : k \in ThreadKeys, f \in FolderValues})

MarkFolderSeenPayloads ==
    Tagged("MarkFolderSeen",
           {[folders |-> fs, timestamp |-> ts] :
              fs \in SeqsUpTo(FolderValues, MaxLen), ts \in TimestampValues})

\* payloads that carry the fields of some event kind, whatever their tag
Extras ==
    {[threadKey |-> k, folder |-> f] : k \in ThreadKeys, f \in FolderValues}
      \cup {[folders |-> fs, timestamp |-> ts] :
              fs \in SeqsUpTo(FolderValues, 1), ts \in TimestampValues}
      \cup {[messageMetadata |-> m, name |-> PyStr("X")] :
              m \in {[actorFbId |-> a, threadKey |-> [threadFbId |-> g], timestamp |-> PyStr("1000")] :
                       a \in UserIds, g \in GroupIds}}

RecognisedTags ==
    {"AdminTextMessage", "ParticipantsAddedToGroupThread", "ParticipantLeftGroupThread",
     "MarkFolderSeen", "ThreadName", "ForcedFetch", "DeliveryReceipt", "ReadReceipt",
     "MarkRead", "NoOp", "NewMessage", "ThreadFolder", "ClientPayload"}

UnfamiliarTags ==
    {"SomeFutureFeature", "", "noop", "NoOperation", "ThreadNames", "clientpayload",
     "Delta class"}

OtherPayloads ==
    UNION {Tagged(tag, Extras) :
             tag \in {"AdminTextMessage", "NoOp", "ClientPayload"} \cup UnfamiliarTags}

\* a payload without the "class" key at all
UntaggedPayloads == Extras \cup {<< >>}

Payloads ==
    ParticipantsAddedPayloads \cup ParticipantLeftPayloads \cup ThreadNamePayloads
      \cup ForcedFetchPayloads \cup DeliveryReceiptPayloads \cup ReadReceiptPayloads
      \cup MarkReadPayloads \cup NewMessagePayloads \cup ThreadFolderPayloads
      \cup MarkFolderSeenPayloads \cup OtherPayloads \cup UntaggedPayloads

GroupThreads == {Group(s, g) : s \in Sessions, g \in GroupIds}

FetchMetas ==
    UNION {SubDicts([message_sender |-> sd, timestamp_precise |-> ts]) :
             sd \in FetchEntries, ts \in TimestampValues}

ParticipantsAddedFetches ==
    FetchMetas \cup {m @@ [participants_added |-> ps] :
                       m \in FetchMetas, ps \in SeqsUpTo(FetchEntries, MaxLen)}

ParticipantRemovedFetches ==
    FetchMetas \cup {m @@ [participants_removed |-> ps] :
                       m \in FetchMetas, ps \in SeqsUpTo(FetchEntries, MaxLen)}

TitleSetFetches ==
    FetchMetas \cup {m @@ [thread_name |-> t] : m \in FetchMetas, t \in Titles}

Calls ==
    {[op |-> "parse_delta", session |-> s, data |-> d] : s \in Sessions, d \in Payloads}
      \cup {[op |-> "ParticipantsAdded._from_send", thread |-> t, added_ids |-> ids] :
              t \in GroupThreads, ids \in SeqsUpTo(UserIds, MaxLen)}
      \cup {[op |-> "ParticipantsAdded._from_fetch", thread |-> t, data |-> d] :
              t \in GroupThreads, d \in ParticipantsAddedFetches}
      \cup {[op |-> "ParticipantRemoved._from_send", thread |-> t, removed_id |-> u] :
              t \in GroupThreads, u \in UserIds}
      \cup {[op |-> "ParticipantRemoved._from_fetch", thread |-> t, data |-> d] :
              t \in GroupThreads, d \in ParticipantRemovedFetches}
      \cup {[op |-> "TitleSet._from_fetch", thread |-> t, data |-> d] :
              t \in GroupThreads, d \in TitleSetFetches}

(***************************************************************************)
(* One call of one entry point: the input is drawn, then the call runs     *)
(***************************************************************************)
NoResult == [pending |-> TRUE]

NoOccurrence == [kind |-> "none"]

Callers == 1..NumCallers

IdlePaths == occ = NoOccurrence /\ built = << >>

IdleCallers ==
    /\ pc = [c \in Callers |-> "idle"]
    /\ frame = [c \in Callers |-> << >>]
    /\ out = [c \in Callers |-> NoResult]

NoCall == [op |-> "none"]

Init ==
    /\ call \in Calls
    /\ result = NoResult
    /\ IdlePaths
    /\ IdleCallers

Pending(op) == call.op = op /\ result = NoResult

ParseDelta ==
    /\ Pending("parse_delta")
    /\ result' = parse_delta(call.session, call.data)
    /\ UNCHANGED <<call, occ, built, pc, frame, out>>

ParticipantsAddedFromSend ==
    /\ Pending("ParticipantsAdded._from_send")
    /\ result' = ParticipantsAdded_from_send(call.thread, call.added_ids)
    /\ UNCHANGED <<call, occ, built, pc, frame, out>>

ParticipantsAddedFromFetch ==
    /\ Pending("ParticipantsAdded._from_fetch")
    /\ result' = ParticipantsAdded_from_fetch(call.thread, call.data)
    /\ UNCHANGED <<call, occ, built, pc, frame, out>>

ParticipantRemovedFromSend ==
    /\ Pending("ParticipantRemoved._from_send")
    /\ result' = ParticipantRemoved_from_send(call.thread, call.removed_id)
    /\ UNCHANGED <<call, occ, built, pc, frame, out>>

ParticipantRemovedFromFetch ==
    /\ Pending("ParticipantRemoved._from_fetch")
    /\ result' = ParticipantRemoved_from_fetch(call.thread, call.data)
    /\ UNCHANGED <<call, occ, built, pc, frame, out>>

TitleSetFromFetch ==
    /\ Pending("TitleSet._from_fetch")
    /\ result' = TitleSet_from_fetch(call.thread, call.data)
    /\ UNCHANGED <<call, occ, built, pc, frame, out>>

Next ==
    \/ ParseDelta
    \/ ParticipantsAddedFromSend
    \/ ParticipantsAddedFromFetch
    \/ ParticipantRemovedFromSend
    \/ ParticipantRemovedFromFetch
    \/ TitleSetFromFetch

Spec == Init /\ [][Next]_vars

\* the call has run
Done == "ok" \in DOMAIN result

Returned == Done /\ result.ok

Raised == Done /\ ~result.ok

\* the call is a parse_delta call that has run on a payload tagged `tag`
Dispatched(tag) ==
    /\ call.op = "parse_delta"
    /\ Done
    /\ "class" \in DOMAIN call.data
    /\ call.data["class"] = PyStr(tag)

(***************************************************************************)
(* C1: an unfamiliar class tag degrades to UnknownEvent                    *)
(***************************************************************************)
\* C1: whenever parse_delta has run on a payload whose "class" is a string
\* outside the 13 tags it branches on, it has returned (not raised) the
\* UnknownEvent with source "Delta class" and data equal to the payload,
\* whatever other keys the payload has or lacks.
C1_UnfamiliarTagIsUnknownEvent ==
    (/\ call.op = "parse_delta"
     /\ Done
     /\ "class" \in DOMAIN call.data
     /\ call.data["class"].type = "str"
     /\ call.data["class"].s \notin RecognisedTags)
    => result = Ok([type |-> "UnknownEvent", source |-> "Delta class", data |-> call.data])

\* an unfamiliar tag on a payload that carries the fields of a known kind
C1_Witness ==
    /\ Dispatched("SomeFutureFeature")
    /\ "messageMetadata" \in DOMAIN call.data
    /\ Returned
    /\ result.v.type = "UnknownEvent"

(***************************************************************************)
(* C2: which events carry an author                                        *)
(***************************************************************************)
AuthoredKinds ==
    {"ParticipantsAdded", "ParticipantRemoved", "TitleSet", "MessagesDelivered",
     "ThreadsRead", "MessageEvent"}

\* the event kinds _delta_class.py builds
EventKinds == AuthoredKinds \cup {"ThreadFolder", "UnfetchedThreadEvent", "UnknownEvent"}

HasAuthor(e) ==
    /\ "author" \in DOMAIN e
    /\ e.author # None
    /\ e.author.type \in {"User", "Group"}

\* C2 as stated: every event returned by parse_delta or a per-kind
\* constructor, other than an UnfetchedThreadEvent or an UnknownEvent,
\* carries a non-null author -- ThreadFolder included.
C2_AsStated ==
    (Returned /\ result.v.type \in EventKinds \ {"UnfetchedThreadEvent", "UnknownEvent"})
    => HasAuthor(result.v)

\* C2 amended: every event returned by parse_delta or a per-kind
\* constructor, other than an UnfetchedThreadEvent, an UnknownEvent or a
\* ThreadFolder, carries a non-null author reference: this holds for all of
\* ParticipantsAdded, ParticipantRemoved, TitleSet, MessagesDelivered,
\* ThreadsRead and MessageEvent.
C2_AuthoredKindsHaveAuthor ==
    (/\ Returned
     /\ result.v.type \in EventKinds \ {"UnfetchedThreadEvent", "UnknownEvent", "ThreadFolder"})
    => HasAuthor(result.v)

\* a delivery mark without an explicit actor: the author is the fallback
C2_Witness ==
    /\ Dispatched("DeliveryReceipt")
    /\ "actorFbId" \notin DOMAIN call.data
    /\ Returned
    /\ HasAuthor(result.v)

(***************************************************************************)
(* C4: the benign no-ops                                                   *)
(***************************************************************************)
\* C4 as stated: for every payload tagged NoOp or MarkFolderSeen,
\* parse_delta returns None and does not raise.
C4_AsStated ==
    (Dispatched("NoOp") \/ Dispatched("MarkFolderSeen")) => result = Ok(None)

\* the MarkFolderSeen branch can read what it parses: "folders" and
\* "timestamp" are present and the timestamp converts to an integer
MarkFolderSeenReadable(data) ==
    /\ {"folders", "timestamp"} \subseteq DOMAIN data
    /\ \/ data["timestamp"].type = "int"
       \/ /\ data["timestamp"].type = "str"
          /\ \E n \in 0..MaxMillis : ToString(n) = data["timestamp"].s

\* C4 amended: for every payload tagged NoOp, parse_delta returns None
\* without raising; for a payload tagged MarkFolderSeen it returns None
\* exactly when the payload has "folders" and a "timestamp" that converts to
\* an integer (and the folder conversion succeeds), and raises otherwise; it
\* never returns an event for either tag.
C4_NoOpsReturnNone ==
    /\ Dispatched("NoOp") => result = Ok(None)
    /\ Dispatched("MarkFolderSeen") =>
          IF MarkFolderSeenReadable(call.data) THEN result = Ok(None) ELSE Raised

\* a MarkFolderSeen payload with folders and a timestamp: parsed, discarded
C4_Witness ==
    /\ Dispatched("MarkFolderSeen")
    /\ MarkFolderSeenReadable(call.data)
    /\ Len(call.data["folders"]) > 0
    /\ result = Ok(None)

(***************************************************************************)
(* C5: a recognised payload that lacks a required field raises             *)
(***************************************************************************)
KeyResolves(key) == {"threadFbId", "otherUserFbId"} \cap DOMAIN key # {}

HasThreadKey(d) == "threadKey" \in DOMAIN d /\ KeyResolves(d["threadKey"])

HasMetadata(d) ==
    /\ "messageMetadata" \in DOMAIN d
    /\ {"actorFbId", "timestamp"} \subseteq DOMAIN d["messageMetadata"]
    /\ HasThreadKey(d["messageMetadata"])

\* every field the parser for `tag` requires is present in d
Complete(tag, d) ==
    CASE tag = "ParticipantsAddedToGroupThread" ->
            /\ HasMetadata(d)
            /\ "addedParticipants" \in DOMAIN d
            /\ \A i \in 1..Len(d["addedParticipants"]) :
                  "userFbId" \in DOMAIN d["addedParticipants"][i]
      [] tag = "ParticipantLeftGroupThread" ->
            HasMetadata(d) /\ "leftParticipantFbId" \in DOMAIN d
      [] tag = "ThreadName" -> HasMetadata(d) /\ "name" \in DOMAIN d
      [] tag = "ForcedFetch" -> HasThreadKey(d)
      [] tag = "DeliveryReceipt" ->
            /\ HasThreadKey(d)
            /\ {"messageIds", "deliveredWatermarkTimestampMs"} \subseteq DOMAIN d
      [] tag = "ReadReceipt" ->
            HasThreadKey(d) /\ {"actorFbId", "actionTimestampMs"} \subseteq DOMAIN d
      [] tag = "MarkRead" ->
            /\ {"threadKeys", "actionTimestamp"} \subseteq DOMAIN d
            /\ \A i \in 1..Len(d["threadKeys"]) : KeyResolves(d["threadKeys"][i])
      [] tag = "NewMessage" -> HasMetadata(d)
      [] tag = "ThreadFolder" -> HasThreadKey(d) /\ "folder" \in DOMAIN d
      [] tag = "MarkFolderSeen" -> {"folders", "timestamp"} \subseteq DOMAIN d

ParsedTags ==
    {"ParticipantsAddedToGroupThread", "ParticipantLeftGroupThread", "ThreadName",
     "ForcedFetch", "DeliveryReceipt", "ReadReceipt", "MarkRead", "NewMessage",
     "ThreadFolder", "MarkFolderSeen"}

\* C5: whenever parse_delta has run on a payload whose tag is one of the ten
\* parsed kinds and that lacks a field the matching parser requires, the
\* call has raised: it returned neither None, nor an UnknownEvent, nor an
\* event.
C5_MissingFieldRaises ==
    \A tag \in ParsedTags :
        (Dispatched(tag) /\ ~Complete(tag, call.data)) => Raised

\* a ThreadFolder payload with its thread key but without "folder"
C5_Witness ==
    /\ Dispatched("ThreadFolder")
    /\ HasThreadKey(call.data)
    /\ "folder" \notin DOMAIN call.data
    /\ Raised
    /\ result.exc = "KeyError"

(***************************************************************************)
(* C6: ThreadsRead from a read receipt and from a bulk mark-read           *)
(***************************************************************************)
\* the datetime `at` is exactly `ms` epoch milliseconds
IsMillis(at, ms) ==
    /\ at.type = "datetime"
    /\ at.second * 1000000 + at.microsecond = ms * 1000

\* `at` is the exact conversion of the raw timestamp value, the decimal
\* text of a number or the number itself
ExactlyConverted(at, raw) ==
    \E ms \in 0..MaxMillis :
        /\ raw \in {PyStr(ToString(ms)), PyInt(ms)}
        /\ IsMillis(at, ms)

\* the reference a thread key stands for
Resolved(session, key) ==
    IF "threadFbId" \in DOMAIN key
    THEN [type |-> "Group", session |-> session, id |-> key["threadFbId"]]
    ELSE [type |-> "User", session |-> session, id |-> key["otherUserFbId"]]

\* C6: a ThreadsRead returned for a "ReadReceipt" payload has exactly one
\* thread, the one its threadKey resolves to, the user data["actorFbId"] as
\* author and the exact conversion of actionTimestampMs as `at`; a
\* ThreadsRead returned for a "MarkRead" payload has one resolved thread per
\* entry of data["threadKeys"], in the same order (none for an empty list),
\* the session's own user as author and the exact conversion of
\* actionTimestamp as `at`.
C6_ThreadsReadNormalised ==
    /\ (Dispatched("ReadReceipt") /\ Returned) =>
          /\ result.v.type = "ThreadsRead"
          /\ Len(result.v.threads) = 1
          /\ result.v.threads[1] = Resolved(call.session, call.data["threadKey"])
          /\ result.v.author =
                [type |-> "User", session |-> call.session, id |-> call.data["actorFbId"]]
          /\ ExactlyConverted(result.v.at, call.data["actionTimestampMs"])
    /\ (Dispatched("MarkRead") /\ Returned) =>
          /\ result.v.type = "ThreadsRead"
          /\ Len(result.v.threads) = Len(call.data["threadKeys"])
          /\ \A i \in 1..Len(call.data["threadKeys"]) :
                result.v.threads[i] = Resolved(call.session, call.data["threadKeys"][i])
          /\ result.v.author =
                [type |-> "User", session |-> call.session, id |-> call.session.user_id]
          /\ ExactlyConverted(result.v.at, call.data["actionTimestamp"])

\* a bulk mark-read of two different threads, read at 1999 ms
C6_Witness ==
    /\ Dispatched("MarkRead")
    /\ Returned
    /\ Len(result.v.threads) = 2
    /\ result.v.threads[1] # result.v.threads[2]
    /\ IsMillis(result.v.at, 1999)

(***************************************************************************)
(* C7: the author of a MessagesDelivered                                   *)
(***************************************************************************)
\* what C7 says in both its readings: author present, one message
\* reference per id, each bound to the event's thread
C7_AuthorAndMessages ==
    (Dispatched("DeliveryReceipt") /\ Returned) =>
        /\ result.v.type = "MessagesDelivered"
        /\ HasAuthor(result.v)
        /\ "actorFbId" \notin DOMAIN call.data => result.v.author = result.v.thread
        /\ "actorFbId" \in DOMAIN call.data =>
              result.v.author =
                 [type |-> "User", session |-> call.session, id |-> call.data["actorFbId"]]
        /\ Len(result.v.messages) = Len(call.data["messageIds"])
        /\ \A i \in 1..Len(call.data["messageIds"]) :
              result.v.messages[i] =
                 [type |-> "Message", thread |-> result.v.thread,
                  id |-> call.data["messageIds"][i]]

\* C7 as stated: the author is the event's own thread (same id) exactly
\* when the payload has no "actorFbId" key.
C7_AsStated ==
    (Dispatched("DeliveryReceipt") /\ Returned) =>
        /\ C7_AuthorAndMessages
        /\ (result.v.author.id = result.v.thread.id) <=> ("actorFbId" \notin DOMAIN call.data)

\* C7 amended: MessagesDelivered._parse sets the author to the event's own
\* thread whenever the payload has no "actorFbId" key; when the key is
\* present the author is the user reference with id data["actorFbId"], which
\* is the thread itself when the thread is the one-to-one thread with that
\* user and differs from it otherwise.  In both cases the author is non-null
\* and messages holds one message reference per entry of data["messageIds"],
\* in order, each bound to the event's thread.
C7_AuthorFallsBackToThread ==
    (Dispatched("DeliveryReceipt") /\ Returned) =>
        /\ C7_AuthorAndMessages
        /\ "actorFbId" \in DOMAIN call.data =>
              ((result.v.author = result.v.thread)
                 <=> (/\ "threadFbId" \notin DOMAIN call.data["threadKey"]
                      /\ call.data["threadKey"]["otherUserFbId"] = call.data["actorFbId"]))

\* a delivery mark on a group thread without an actor: the group is the author
C7_Witness ==
    /\ Dispatched("DeliveryReceipt")
    /\ Returned
    /\ "actorFbId" \notin DOMAIN call.data
    /\ result.v.author.type = "Group"
    /\ Len(result.v.messages) = 2

(***************************************************************************)
(* C8: an empty title is a cleared title                                   *)
(***************************************************************************)
\* the raw title a TitleSet was built from
RawTitle ==
    IF call.op = "parse_delta" THEN call.data["name"] ELSE call.data["thread_name"]

BuildsTitleSet == Dispatched("ThreadName") \/ (call.op = "TitleSet._from_fetch" /\ Done)

\* C8: a TitleSet built by _parse or by _from_fetch never carries the empty
\* string as its title: the raw title "" gives title None, and every
\* non-empty raw title gives that title unchanged.
C8_EmptyTitleIsNone ==
    (BuildsTitleSet /\ Returned) =>
        /\ result.v.type = "TitleSet"
        /\ result.v.title # PyStr("")
        /\ RawTitle = PyStr("") => result.v.title = None
        /\ (RawTitle.type = "str" /\ RawTitle.s # "") => result.v.title = RawTitle

\* a fetched record whose thread_name is "" gives a TitleSet with no title
C8_Witness ==
    /\ call.op = "TitleSet._from_fetch"
    /\ Returned
    /\ call.data["thread_name"] = PyStr("")
    /\ result.v.title = None

(***************************************************************************)
(* C9: ClientPayload is not this dispatcher's to parse                     *)
(***************************************************************************)
\* C9: whenever parse_delta has run on a payload tagged "ClientPayload", it
\* has raised ValueError, whatever the payload's other fields.
C9_ClientPayloadRaises ==
    Dispatched("ClientPayload") => result = Raise("ValueError")

\* a ClientPayload that carries the fields of a known kind
C9_Witness ==
    /\ Dispatched("ClientPayload")
    /\ "threadKey" \in DOMAIN call.data
    /\ Raised

(***************************************************************************)
(* The three construction paths on one logical occurrence                  *)
(***************************************************************************)
\* who did what in which group, and when
Occurrences ==
    UNION {
      {[kind |-> "ParticipantsAdded", session |-> s, group |-> g, actor |-> a,
        ids |-> ids, ms |-> ms] :
          g \in GroupIds, a \in UserIds \cup {s.user_id},
          ids \in SeqsUpTo(UserIds, MaxLen), ms \in Millis}
        \cup {[kind |-> "ParticipantRemoved", session |-> s, group |-> g, actor |-> a,
               removed |-> u, ms |-> ms] :
                g \in GroupIds, a \in UserIds \cup {s.user_id}, u \in UserIds, ms \in Millis}
        \cup {[kind |-> "TitleSet", session |-> s, group |-> g, actor |-> a,
               title |-> t, ms |-> ms] :
                g \in GroupIds, a \in UserIds \cup {s.user_id},
                t \in Titles \ {None}, ms \in Millis}
      : s \in Sessions}

\* the occurrence as the live stream delivers it
LiveMetadata(o) ==
    [actorFbId |-> o.actor, threadKey |-> [threadFbId |-> o.group],
     timestamp |-> PyStr(ToString(o.ms))]

LivePayload(o) ==
    CASE o.kind = "ParticipantsAdded" ->
            [class |-> PyStr("ParticipantsAddedToGroupThread"),
             messageMetadata |-> LiveMetadata(o),
             addedParticipants |-> [i \in 1..Len(o.ids) |-> [userFbId |-> o.ids[i]]]]
      [] o.kind = "ParticipantRemoved" ->
            [class |-> PyStr("ParticipantLeftGroupThread"),
             messageMetadata |-> LiveMetadata(o),
             leftParticipantFbId |-> o.removed]
      [] o.kind = "TitleSet" ->
            [class |-> PyStr("ThreadName"),
             messageMetadata |-> LiveMetadata(o),
             name |-> o.title]

\* the occurrence as a later history fetch reports it
FetchRecord(o) ==
    CASE o.kind = "ParticipantsAdded" ->
            [message_sender |-> [id |-> o.actor],
             timestamp_precise |-> PyStr(ToString(o.ms)),
             participants_added |-> [i \in 1..Len(o.ids) |-> [id |-> o.ids[i]]]]
      [] o.kind = "ParticipantRemoved" ->
            [message_sender |-> [id |-> o.actor],
             timestamp_precise |-> PyStr(ToString(o.ms)),
             participants_removed |-> <<[id |-> o.removed]>>]
      [] o.kind = "TitleSet" ->
            [message_sender |-> [id |-> o.actor],
             timestamp_precise |-> PyStr(ToString(o.ms)),
             thread_name |-> o.title]

OccurrenceThread(o) == [type |-> "Group", session |-> o.session, id |-> o.group]

IdleCall == call = NoCall /\ result = NoResult

InitPaths ==
    /\ occ \in Occurrences
    /\ built = << >>
    /\ IdleCall
    /\ IdleCallers

Build(path, outcome) ==
    /\ path \notin DOMAIN built
    /\ built' = built @@ [p \in {path} |-> outcome]
    /\ UNCHANGED <<call, result, occ, pc, frame, out>>

\* the live path: parse_delta on the streamed payload
BuildLive == Build("_parse", parse_delta(occ.session, LivePayload(occ)))

\* the local echo: only the session's own user acts, and only kinds with
\* a _from_send
BuildSend ==
    /\ occ.actor = occ.session.user_id
    /\ \/ /\ occ.kind = "ParticipantsAdded"
          /\ Build("_from_send", ParticipantsAdded_from_send(OccurrenceThread(occ), occ.ids))
       \/ /\ occ.kind = "ParticipantRemoved"
          /\ Build("_from_send",
                   ParticipantRemoved_from_send(OccurrenceThread(occ), occ.removed))

\* the reconciliation path
BuildFetch ==
    \/ /\ occ.kind = "ParticipantsAdded"
       /\ Build("_from_fetch",
                ParticipantsAdded_from_fetch(OccurrenceThread(occ), FetchRecord(occ)))
    \/ /\ occ.kind = "ParticipantRemoved"
       /\ Build("_from_fetch",
                ParticipantRemoved_from_fetch(OccurrenceThread(occ), FetchRecord(occ)))
    \/ /\ occ.kind = "TitleSet"
       /\ Build("_from_fetch", TitleSet_from_fetch(OccurrenceThread(occ), FetchRecord(occ)))

NextPaths == BuildLive \/ BuildSend \/ BuildFetch

SpecPaths == InitPaths /\ [][NextPaths]_vars

\* the kind-specific field of an event
Affected(e) ==
    CASE e.type = "ParticipantsAdded" -> e.added
      [] e.type = "ParticipantRemoved" -> e.removed
      [] e.type = "TitleSet" -> e.title

\* two events agree on every field but `at`
AgreeExceptAt(e, f) ==
    /\ e.type = f.type
    /\ e.author = f.author
    /\ e.thread = f.thread
    /\ Affected(e) = Affected(f)

\* the event says what the occurrence was
Describes(e, o) ==
    /\ e.type = o.kind
    /\ e.author.type = "User" /\ e.author.id = o.actor
    /\ e.thread.type = "Group" /\ e.thread.id = o.group
    /\ CASE o.kind = "ParticipantsAdded" ->
               /\ Len(e.added) = Len(o.ids)
               /\ \A i \in 1..Len(o.ids) : e.added[i].type = "User" /\ e.added[i].id = o.ids[i]
         [] o.kind = "ParticipantRemoved" ->
               e.removed.type = "User" /\ e.removed.id = o.removed
         [] o.kind = "TitleSet" ->
               e.title = IF o.title = PyStr("") THEN None ELSE o.title

\* C3: the events that the paths of one kind (_parse, _from_send,
\* _from_fetch) build from the same logical occurrence -- same thread, same
\* actor (for _from_send the session's own user), same affected user ids or
\* title -- agree on every field except `at`: same author, same thread, the
\* same added sequence in the same order, or removed user, or title; and
\* _from_send leaves `at` None.
C3_PathsAgree ==
    /\ \A p \in DOMAIN built : built[p].ok /\ Describes(built[p].v, occ)
    /\ \A p, q \in DOMAIN built : AgreeExceptAt(built[p].v, built[q].v)
    /\ "_from_send" \in DOMAIN built => built["_from_send"].v.at = None

\* all three paths have built an addition of two different users
C3_Witness ==
    /\ occ.kind = "ParticipantsAdded"
    /\ DOMAIN built = {"_parse", "_from_send", "_from_fetch"}
    /\ Len(occ.ids) = 2
    /\ occ.ids[1] # occ.ids[2]
    /\ built["_parse"].v.added = built["_from_send"].v.added

(***************************************************************************)
(* Concurrent callers: each call of parse_delta runs in its own frame, in  *)
(* two steps (read the tag, then dispatch), interleaved with the others    *)
(***************************************************************************)
\* one payload of each outcome: events, None, raises, the fallback
ConcurrentPayloads ==
    {[class |-> PyStr("NoOp")],
     [class |-> PyStr("ClientPayload")],
     [class |-> PyStr("SomeFutureFeature"), folder |-> PyStr("FOLDER_INBOX")],
     [class |-> PyStr("ThreadFolder"), threadKey |-> [threadFbId |-> PyStr("900")],
      folder |-> PyStr("FOLDER_INBOX")],
     [class |-> PyStr("ThreadFolder"), threadKey |-> [otherUserFbId |-> PyStr("300")]],
     [class |-> PyStr("MarkRead"), threadKeys |-> <<[threadFbId |-> PyStr("900")]>>,
      actionTimestamp |-> PyStr("1999")],
     [folder |-> PyStr("FOLDER_INBOX")]}

InitConcurrent ==
    /\ IdleCall
    /\ IdlePaths
    /\ IdleCallers

\* caller c calls parse_delta(session, data)
Invoke(c) ==
    /\ pc[c] = "idle"
    /\ \E s \in Sessions, d \in ConcurrentPayloads :
          frame' = [frame EXCEPT ![c] = [session |-> s, data |-> d]]
    /\ pc' = [pc EXCEPT ![c] = "read_class"]
    /\ UNCHANGED <<out, call, result, occ, built>>

\* class_ kept in one module-level variable that every call in flight reads
ReadClass_shared(c) ==
    /\ pc[c] = "read_class"
    /\ LET class_ == GetItem(frame[c].data, "class") IN
       IF class_.ok
       THEN /\ frame' = [d \in Callers |->
                          IF d = c \/ pc[d] = "dispatch"
                          THEN [k \in DOMAIN frame[d] \ {"class_"} |-> frame[d][k]]
                                  @@ [k \in {"class_"} |-> class_.v]
                          ELSE frame[d]]
            /\ pc' = [pc EXCEPT ![c] = "dispatch"]
            /\ out' = out
       ELSE /\ out' = [out EXCEPT ![c] = class_]
            /\ pc' = [pc EXCEPT ![c] = "done"]
            /\ frame' = frame
    /\ UNCHANGED <<call, result, occ, built>>

\* class_ = data["class"], into the frame of the call
ReadClass(c) ==
    /\ pc[c] = "read_class"
    /\ LET class_ == GetItem(frame[c].data, "class") IN
       IF class_.ok
       THEN /\ frame' = [frame EXCEPT ![c] = frame[c] @@ [k \in {"class_"} |-> class_.v]]
            /\ pc' = [pc EXCEPT ![c] = "dispatch"]
            /\ out' = out
       ELSE /\ out' = [out EXCEPT ![c] = class_]
            /\ pc' = [pc EXCEPT ![c] = "done"]
            /\ frame' = frame
    /\ UNCHANGED <<call, result, occ, built>>

\* the if/elif chain on the frame's class_, session and data
Dispatch(c) ==
    /\ pc[c] = "dispatch"
    /\ out' = [out EXCEPT ![c] =
                  parse_delta_dispatch(frame[c]["class_"], frame[c].session, frame[c].data)]
    /\ pc' = [pc EXCEPT ![c] = "done"]
    /\ UNCHANGED <<frame, call, result, occ, built>>

\* the caller takes the outcome; the frame is gone
Return(c) ==
    /\ pc[c] = "done"
    /\ pc' = [pc EXCEPT ![c] = "idle"]
    /\ frame' = [frame EXCEPT ![c] = << >>]
    /\ out' = [out EXCEPT ![c] = NoResult]
    /\ UNCHANGED <<call, result, occ, built>>

NextConcurrent == \E c \in Callers : Invoke(c) \/ ReadClass(c) \/ Dispatch(c) \/ Return(c)

SpecConcurrent == InitConcurrent /\ [][NextConcurrent]_vars

\* every finished call has the outcome the same call has when it runs alone
OutcomeAsAlone ==
    \A c \in Callers :
        pc[c] = "done" => out[c] = parse_delta(frame[c].session, frame[c].data)

\* a step leaves the session and the payload of every call in progress as
\* they were passed in
ArgumentsUntouched ==
    \A c \in Callers :
        (pc[c] # "idle" /\ pc'[c] # "idle") =>
            /\ frame'[c].session = frame[c].session
            /\ frame'[c].data = frame[c].data

\* C10: in every interleaving of parse_delta calls by several callers, each
\* finished call has the outcome (event, None or raised error) that its own
\* session and payload give when the call runs alone, and no step of any
\* call changes the payload or the session of a call in progress.
C10_CallsAreIndependent == []OutcomeAsAlone /\ [][ArgumentsUntouched]_vars

\* two calls on different payloads, one finished with an event while the
\* other is between reading its tag and dispatching
C10_Witness ==
    /\ pc[1] = "done"
    /\ pc[2] = "dispatch"
    /\ frame[1].data # frame[2].data
    /\ out[1].ok
    /\ out[1].v.type = "ThreadsRead"

====
